---- MODULE Spec2Model ----
(***************************************************************************)
(* Identity reconciliation service (POST /identify).                        *)
(*                                                                         *)
(* The store is the Contact table: a sequence of rows indexed by their     *)
(* auto-increment id.  One Identify action is one complete                 *)
(* prisma.$transaction of identify(): direct match, cluster fetch,         *)
(* election of the canonical primary, demotions, exact-match check,        *)
(* optional insert, final re-fetch and response formatting.                *)
(***************************************************************************)
EXTENDS Integers, Sequences, FiniteSets

(* ------------------------------ bounds --------------------------------- *)

\* Calls that would insert a row into a table of MaxContacts rows are cut off.
MaxContacts == 4

\* At most this many rows are inserted within one reading of the clock.
MaxSameInstant == 2

\* The same cap for the runs of two-field requests only (BridgeSpec).
MaxBridgeContacts == 5

\* Requests the server can be serving at the same time.
MaxClients == 3

\* Requests served at the same time in the runs of TxSpec.
MaxTxClients == 2

\* The cap on inserted rows, committed or not, in the runs of single statements.
MaxTxContacts == 3

\* The number of requests received in a run of single statements.
MaxCalls == 4

\* At most this many rows are soft-deleted in a run of DeleteSpec.
MaxDeleted == 1

\* Signals delivered to the process in a run of ShutdownSpec.
MaxSignals == 2

\* Connections the HTTP server holds open at the same time in those runs.
MaxConnections == 2

\* The email and phone values requests are drawn from, in the order in which
\* requests first use them.
Emails == <<"e1", "e2">>
Phones == <<"p1", "p2">>

\* The values of the runs of two-field requests only.
BridgeEmails == <<"e1", "e2", "e3">>
BridgePhones == <<"p1", "p2", "p3">>

(* ------------------------------ values --------------------------------- *)

\* email / phoneNumber / deletedAt: string | null
NULL == "null"
\* linkedId: number | null (ids start at 1)
NullId == 0

VARIABLES
    contacts,   \* the Contact table, contacts[i].id = i
    req,        \* input of the last identify call
    resp,       \* what the last identify call returned (or threw)
    last,       \* which path the last call took and what it wrote
    txs,        \* the open transaction of each client, statement by statement
    dead,       \* ids of rows whose inserting transaction was rolled back
    calls,      \* requests received so far in a run of single statements
    process     \* the Node process: HTTP server, database client, exit code

vars == <<contacts, req, resp, last, txs, dead, calls, process>>

(* ------------------------- sequence helpers ---------------------------- *)

Range(s) == {s[i] : i \in 1..Len(s)}

\* Array.prototype.sort with comparator a.createdAt - b.createdAt (stable).
RECURSIVE InsertByCreatedAt(_, _)
InsertByCreatedAt(c, s) ==
    IF s = <<>> THEN <<c>>
    ELSE IF s[1].createdAt <= c.createdAt
         THEN <<s[1]>> \o InsertByCreatedAt(c, Tail(s))
         ELSE <<c>> \o s

RECURSIVE SortByCreatedAt(_)
SortByCreatedAt(s) ==
    IF s = <<>> THEN <<>>
    ELSE InsertByCreatedAt(s[Len(s)], SortByCreatedAt(SubSeq(s, 1, Len(s) - 1)))

\* Array.prototype.sort with comparator a.id - b.id.
RECURSIVE InsertById(_, _)
InsertById(c, s) ==
    IF s = <<>> THEN <<c>>
    ELSE IF s[1].id <= c.id
         THEN <<s[1]>> \o InsertById(c, Tail(s))
         ELSE <<c>> \o s

RECURSIVE SortById(_)
SortById(s) ==
    IF s = <<>> THEN <<>>
    ELSE InsertById(s[Len(s)], SortById(SubSeq(s, 1, Len(s) - 1)))

(* ------------------------------ the store ------------------------------ *)

\* A findMany result: the rows of the set, orderBy createdAt asc.  Rows with
\* equal createdAt come back in an order the database is free to choose.
RECURSIVE OrderByCreatedAt(_)
OrderByCreatedAt(S) ==
    IF S = {} THEN {<<>>}
    ELSE UNION { { <<c>> \o rest : rest \in OrderByCreatedAt(S \ {c}) } :
                 c \in {x \in S : \A y \in S : x.createdAt <= y.createdAt} }

\* JavaScript truthiness of an optional string field.
Present(v) == v # NULL

\* Mutant: the OR query has lost its phoneNumber branch.
FindDirectMatches_EmailOnly(store, email, phoneNumber) ==
    IF ~Present(email) /\ ~Present(phoneNumber) THEN {<<>>}
    ELSE OrderByCreatedAt(
            {c \in Range(store) :
                /\ Present(email) /\ c.email = email
                /\ c.deletedAt = NULL})

FindDirectMatches(store, email, phoneNumber) ==
    IF ~Present(email) /\ ~Present(phoneNumber) THEN {<<>>}
    ELSE OrderByCreatedAt(
            {c \in Range(store) :
                /\ \/ Present(email) /\ c.email = email
                   \/ Present(phoneNumber) /\ c.phoneNumber = phoneNumber
                /\ c.deletedAt = NULL})

\* Mutant: the query has lost its linkedId branch.
FetchCluster_ByIdOnly(store, primaryIds) ==
    OrderByCreatedAt(
        {c \in Range(store) : c.id \in primaryIds /\ c.deletedAt = NULL})

FetchCluster(store, primaryIds) ==
    OrderByCreatedAt(
        {c \in Range(store) :
            /\ c.id \in primaryIds \/ c.linkedId \in primaryIds
            /\ c.deletedAt = NULL})

\* Mutant: the query has lost its deletedAt filter.
FetchFinalCluster_WithDeleted(store, canonicalPrimaryId) ==
    OrderByCreatedAt(
        {c \in Range(store) :
            c.id = canonicalPrimaryId \/ c.linkedId = canonicalPrimaryId})

FetchFinalCluster(store, canonicalPrimaryId) ==
    OrderByCreatedAt(
        {c \in Range(store) :
            /\ c.id = canonicalPrimaryId \/ c.linkedId = canonicalPrimaryId
            /\ c.deletedAt = NULL})

\* Mutant: the demoted row is linked but keeps its precedence.
DemoteToSecondary_KeepsPrecedence(store, demotedId, canonicalPrimaryId) ==
    [i \in 1..Len(store) |->
        IF store[i].id = demotedId
        THEN [store[i] EXCEPT !.linkedId = canonicalPrimaryId]
        ELSE store[i]]

\* Mutant: the update demotes every primary but the canonical one.
DemoteToSecondary_EveryPrimary(store, demotedId, canonicalPrimaryId) ==
    [i \in 1..Len(store) |->
        IF store[i].linkPrecedence = "primary" /\ store[i].id # canonicalPrimaryId
        THEN [store[i] EXCEPT !.linkPrecedence = "secondary",
                              !.linkedId = canonicalPrimaryId]
        ELSE store[i]]

DemoteToSecondary(store, demotedId, canonicalPrimaryId) ==
    [i \in 1..Len(store) |->
        IF store[i].id = demotedId
        THEN [store[i] EXCEPT !.linkPrecedence = "secondary",
                              !.linkedId = canonicalPrimaryId]
        ELSE store[i]]

\* Mutant: the children of a demoted primary are left where they are.
ReparentSecondaries_Skipped(store, demotedId, canonicalPrimaryId) == store

ReparentSecondaries(store, demotedId, canonicalPrimaryId) ==
    [i \in 1..Len(store) |->
        IF store[i].linkedId = demotedId /\ store[i].deletedAt = NULL
        THEN [store[i] EXCEPT !.linkedId = canonicalPrimaryId]
        ELSE store[i]]

\* Contact.id @default(autoincrement())
NextId(store) == Len(store) + 1

\* Contact.createdAt @default(now()): the clock never runs backwards, and two
\* inserts may read the same instant.
ClockReadings(store) ==
    IF store = <<>> THEN {1}
    ELSE LET t == store[Len(store)].createdAt
         IN  {t + 1} \cup
             (IF Cardinality({i \in 1..Len(store) : store[i].createdAt = t})
                   < MaxSameInstant
              THEN {t} ELSE {})

\* Mutant: the insert loses the phone number.
CreateContact_DropsPhone(store, email, phoneNumber, linkedId, linkPrecedence) ==
    { Append(store, [id             |-> NextId(store),
                     email          |-> email,
                     phoneNumber    |-> NULL,
                     linkedId       |-> linkedId,
                     linkPrecedence |-> linkPrecedence,
                     createdAt      |-> now,
                     deletedAt      |-> NULL]) :
      now \in ClockReadings(store) }

\* The tables an insert can leave, one for each reading of the clock.
CreateContact(store, email, phoneNumber, linkedId, linkPrecedence) ==
    { Append(store, [id             |-> NextId(store),
                     email          |-> email,
                     phoneNumber    |-> phoneNumber,
                     linkedId       |-> linkedId,
                     linkPrecedence |-> linkPrecedence,
                     createdAt      |-> now,
                     deletedAt      |-> NULL]) :
      now \in ClockReadings(store) }

\* Mutant: the idempotency check never finds a row.
FindExactMatch_NeverFound(store, email, phoneNumber) == {}

\* Mutant: with both fields given, a row with the email and a row with the
\* phone are enough.
FindExactMatch_PerValue(store, email, phoneNumber) ==
    IF Present(email) /\ Present(phoneNumber)
    THEN {c \in Range(store) :
            /\ c.deletedAt = NULL /\ c.email = email
            /\ \E d \in Range(store) : d.deletedAt = NULL /\ d.phoneNumber = phoneNumber}
    ELSE IF Present(email)
    THEN {c \in Range(store) : c.deletedAt = NULL /\ c.email = email}
    ELSE IF Present(phoneNumber)
    THEN {c \in Range(store) : c.deletedAt = NULL /\ c.phoneNumber = phoneNumber}
    ELSE {}

\* The rows findFirst may return; the caller only tests whether there is one.
FindExactMatch(store, email, phoneNumber) ==
    IF Present(email) /\ Present(phoneNumber)
    THEN {c \in Range(store) :
            c.deletedAt = NULL /\ c.email = email /\ c.phoneNumber = phoneNumber}
    ELSE IF Present(email)
    THEN {c \in Range(store) : c.deletedAt = NULL /\ c.email = email}
    ELSE IF Present(phoneNumber)
    THEN {c \in Range(store) : c.deletedAt = NULL /\ c.phoneNumber = phoneNumber}
    ELSE {}

(* ------------------------- identity.service.ts ------------------------- *)

\* Mutant: a value already seen is added again.
AddUnique_KeepsDuplicates(list, v) ==
    IF Present(v) THEN Append(list, v) ELSE list

\* addEmail / addPhone: skip null and values already seen, keep the order.
AddUnique(list, v) ==
    IF Present(v) /\ v \notin Range(list) THEN Append(list, v) ELSE list

\* Mutant: a secondary's new email is put in front of the list.
RECURSIVE CollectEmails_Prepends(_, _)
CollectEmails_Prepends(list, cs) ==
    IF cs = <<>> THEN list
    ELSE CollectEmails_Prepends(
            IF Present(cs[1].email) /\ cs[1].email \notin Range(list)
            THEN <<cs[1].email>> \o list ELSE list,
            Tail(cs))

RECURSIVE CollectEmails(_, _)
CollectEmails(list, cs) ==
    IF cs = <<>> THEN list
    ELSE CollectEmails(AddUnique(list, cs[1].email), Tail(cs))

RECURSIVE CollectPhones(_, _)
CollectPhones(list, cs) ==
    IF cs = <<>> THEN list
    ELSE CollectPhones(AddUnique(list, cs[1].phoneNumber), Tail(cs))

IsPrimary(c) == c.linkPrecedence = "primary"
IsSecondary(c) == c.linkPrecedence = "secondary"

NoContact ==
    [primaryContactId |-> NullId, emails |-> <<>>, phoneNumbers |-> <<>>,
     secondaryContactIds |-> <<>>]

\* A thrown error without statusCode: the error handler answers 500.
InternalError == [status |-> 500, contact |-> NoContact]
\* Before the first call.
NoResponse == [status |-> 0, contact |-> NoContact]

FormatResponse(cluster) ==
    LET primaries == SelectSeq(cluster, IsPrimary)
    IN  IF primaries = <<>> THEN InternalError
        ELSE
        LET primary == primaries[1]
            secondaries == SortById(SelectSeq(cluster, IsSecondary))
        IN  [status |-> 200,
             contact |->
               [primaryContactId    |-> primary.id,
                emails              |-> CollectEmails(AddUnique(<<>>, primary.email),
                                                      secondaries),
                phoneNumbers        |-> CollectPhones(AddUnique(<<>>, primary.phoneNumber),
                                                      secondaries),
                secondaryContactIds |-> [i \in 1..Len(secondaries) |-> secondaries[i].id]]]

\* Mutant: a matched secondary contributes its own id.
PrimaryIdSet_MatchedIds(directMatches) == {c.id : c \in Range(directMatches)}

\* Mutant: a matched secondary does not contribute its linkedId.
PrimaryIdSet_PrimariesOnly(directMatches) ==
    {c.id : c \in {m \in Range(directMatches) : IsPrimary(m)}}

\* Step 4A: the primary ids the direct matches refer to.
PrimaryIdSet(directMatches) ==
    {c.id : c \in {m \in Range(directMatches) : IsPrimary(m)}}
    \cup {c.linkedId : c \in {m \in Range(directMatches) :
                                ~IsPrimary(m) /\ m.linkedId # NullId}}

\* Mutant: the primaries are taken in the order the query returned them.
PrimariesInCluster_Unsorted(cluster) == SelectSeq(cluster, IsPrimary)

\* Step 4C: primaries of the cluster, oldest first.
PrimariesInCluster(cluster) == SortByCreatedAt(SelectSeq(cluster, IsPrimary))

\* Step 4D: re-parent the children of each extra primary, then demote it.
RECURSIVE DemoteExtras(_, _, _)
DemoteExtras(store, extras, canonicalPrimaryId) ==
    IF extras = <<>> THEN store
    ELSE DemoteExtras(
            DemoteToSecondary(
                ReparentSecondaries(store, extras[1].id, canonicalPrimaryId),
                extras[1].id, canonicalPrimaryId),
            Tail(extras), canonicalPrimaryId)

Ids(cs) == {cs[i].id : i \in 1..Len(cs)}

\* What a call leaves behind: the committed table, the answer, and the path.
Outcome(store, response, path, canonical, demoted) ==
    [contacts |-> store, resp |-> response,
     last |-> [path |-> path, canonical |-> canonical, demoted |-> demoted]]

\* A throw inside the transaction callback rolls every write back.
Rollback(store) == Outcome(store, InternalError, "fault", NullId, {})

\* Mutant: the response is formatted from the table as it was before the writes.
Respond_BeforeWrites(store, final, path, canonicalPrimaryId, demoted) ==
    { IF response.status = 200
      THEN Outcome(final, response, path, canonicalPrimaryId, demoted)
      ELSE Rollback(store) :
      response \in { FormatResponse(finalCluster) :
                     finalCluster \in FetchFinalCluster(store, canonicalPrimaryId) } }

\* Step 4G: re-fetch the final cluster and format it.
Respond(store, final, path, canonicalPrimaryId, demoted) ==
    { IF response.status = 200
      THEN Outcome(final, response, path, canonicalPrimaryId, demoted)
      ELSE Rollback(store) :
      response \in { FormatResponse(finalCluster) :
                     finalCluster \in FetchFinalCluster(final, canonicalPrimaryId) } }

\* Mutant: a cluster without a primary is answered as a new identity.
Resolve_NewPrimary(store, email, phoneNumber, primariesInCluster) ==
    IF primariesInCluster = <<>>
    THEN { Outcome(created, FormatResponse(<<created[Len(created)]>>),
                   "primary", created[Len(created)].id, {}) :
           created \in CreateContact(store, email, phoneNumber, NullId, "primary") }
    ELSE
    LET canonicalPrimary == primariesInCluster[1]
        extras == Tail(primariesInCluster)
        merged == DemoteExtras(store, extras, canonicalPrimary.id)
    IN  IF FindExactMatch(merged, email, phoneNumber) # {}
        THEN Respond(store, merged, "exact", canonicalPrimary.id, Ids(extras))
        ELSE UNION { Respond(store, final, "secondary", canonicalPrimary.id, Ids(extras)) :
                     final \in CreateContact(merged, email, phoneNumber,
                                             canonicalPrimary.id, "secondary") }

\* Steps 4C-4G, given the primaries of the fetched cluster, oldest first.
Resolve(store, email, phoneNumber, primariesInCluster) ==
    IF primariesInCluster = <<>> THEN {Rollback(store)}
    ELSE
    LET canonicalPrimary == primariesInCluster[1]
        extras == Tail(primariesInCluster)
        merged == DemoteExtras(store, extras, canonicalPrimary.id)
    IN  IF FindExactMatch(merged, email, phoneNumber) # {}
        THEN Respond(store, merged, "exact", canonicalPrimary.id, Ids(extras))
        ELSE UNION { Respond(store, final, "secondary", canonicalPrimary.id, Ids(extras)) :
                     final \in CreateContact(merged, email, phoneNumber,
                                             canonicalPrimary.id, "secondary") }

\* The transaction callback of identify(): every outcome it can commit.
IdentifyTx(store, email, phoneNumber) ==
    LET matched == { [n |-> Len(directMatches), ids |-> PrimaryIdSet(directMatches)] :
                     directMatches \in FindDirectMatches(store, email, phoneNumber) }
    IN  UNION {
          IF m.n = 0
          THEN { Outcome(created, FormatResponse(<<created[Len(created)]>>),
                         "primary", created[Len(created)].id, {}) :
                 created \in CreateContact(store, email, phoneNumber, NullId, "primary") }
          ELSE UNION { Resolve(store, email, phoneNumber, primariesInCluster) :
                       primariesInCluster \in
                         { PrimariesInCluster(cluster) : cluster \in FetchCluster(store, m.ids) } } :
          m \in matched }

(* ------------------------------ behaviour ------------------------------ *)

NoRequest == [email |-> NULL, phoneNumber |-> NULL]

Clients == 1..MaxClients

\* A client with no transaction open.
IdleTx ==
    [pc |-> "idle", email |-> NULL, phoneNumber |-> NULL,
     primaryIds |-> {}, canonical |-> NullId, extras |-> <<>>, demoted |-> {},
     path |-> "none", response |-> NoResponse,
     inserted |-> {}, updated |-> {}]

\* process.exitCode while the process runs.
NoExit == -1

\* server.ts has run: the environment is validated, the server listens, no
\* signal has arrived.
Started ==
    [server |-> "listening", connections |-> 0, signals |-> 0,
     onClose |-> {}, disconnecting |-> {}, timers |-> {},
     prisma |-> "connected", exitCode |-> NoExit, exitedBy |-> "none"]

Init ==
    /\ contacts = <<>>
    /\ req = NoRequest
    /\ resp = NoResponse
    /\ last = [path |-> "none", canonical |-> NullId, demoted |-> {}]
    /\ txs = [t \in Clients |-> IdleTx]
    /\ dead = {}
    /\ calls = 0
    /\ process = Started

\* The code compares emails and phone numbers for equality only, so requests
\* are taken up to renaming: a field carries a value some row already has, or
\* the first value of the list that no row has yet.
Offered(list, known) ==
    {list[i] : i \in {k \in 1..Len(list) : \A j \in 1..(k - 1) : list[j] \in known}}

KnownEmails(store) == {c.email : c \in Range(store)} \ {NULL}
KnownPhones(store) == {c.phoneNumber : c \in Range(store)} \ {NULL}

\* One identify call: the transaction commits one of its outcomes.
Call(email, phoneNumber, cap) ==
    \E out \in IdentifyTx(contacts, email, phoneNumber) :
        /\ Len(out.contacts) <= cap
        /\ contacts' = out.contacts
        /\ resp' = out.resp
        /\ last' = out.last
        /\ req' = [email |-> email, phoneNumber |-> phoneNumber]
        /\ UNCHANGED <<txs, dead, calls, process>>

\* POST /identify with a body the controller accepts: each field a value or
\* null, at least one present.
Identify ==
    \E email \in Offered(Emails, KnownEmails(contacts)) \cup {NULL},
       phoneNumber \in Offered(Phones, KnownPhones(contacts)) \cup {NULL} :
        /\ Present(email) \/ Present(phoneNumber)
        /\ Call(email, phoneNumber, MaxContacts)

Next == Identify

Spec == Init /\ [][Next]_vars

\* Runs in which every request carries both fields: independent contacts are
\* created and then bridged pairwise.
IdentifyBoth ==
    \E email \in Offered(BridgeEmails, KnownEmails(contacts)),
       phoneNumber \in Offered(BridgePhones, KnownPhones(contacts)) :
        Call(email, phoneNumber, MaxBridgeContacts)

BridgeNext == IdentifyBoth

BridgeSpec == Init /\ [][BridgeNext]_vars

(* ---------------------- soft deletion (DeleteSpec) --------------------- *)

\* deletedAt of a soft-deleted row: some timestamp; the queries only test it
\* for null.
Deleted == "deleted"

\* Something outside identify() soft-deletes a row between two requests.
SoftDelete ==
    /\ \E i \in 1..Len(contacts) :
          /\ contacts[i].deletedAt = NULL
          /\ Cardinality({j \in 1..Len(contacts) : contacts[j].deletedAt # NULL})
                < MaxDeleted
          /\ contacts' = [contacts EXCEPT ![i].deletedAt = Deleted]
    /\ req' = NoRequest
    /\ resp' = NoResponse
    /\ last' = [path |-> "none", canonical |-> NullId, demoted |-> {}]
    /\ UNCHANGED <<txs, dead, calls, process>>

DeleteNext == Identify \/ SoftDelete

DeleteSpec == Init /\ [][DeleteNext]_vars

(* ------------------- one statement at a time (TxSpec) ------------------ *)

\* Each await of the transaction callback is one statement sent to the
\* database, and other requests run between two awaits.  prisma.$transaction
\* is opened without an isolation level, so PostgreSQL runs it READ COMMITTED:
\* every statement sees the rows committed when it starts plus the
\* transaction's own writes.  In these runs contacts is the physical table:
\* it also holds the rows inserted by open or rolled-back transactions, which
\* only their own transaction can see.

\* Mutant: rows inserted by open transactions of other clients are visible.
Hidden_OnlyDead(t) == dead

\* The ids client t cannot see.
Hidden(t) == dead \cup UNION {txs[u].inserted : u \in Clients \ {t}}

\* The table as the next statement of client t sees it.
Snapshot(t) ==
    LET own(i) == IF \E r \in txs[t].updated : r.id = i
                  THEN CHOOSE r \in txs[t].updated : r.id = i
                  ELSE contacts[i]
        hidden == Hidden(t)
    IN  SelectSeq([i \in 1..Len(contacts) |-> own(i)], LAMBDA c : c.id \notin hidden)

\* The table as a client with no transaction open sees it: committed rows only.
Committed ==
    SelectSeq(contacts,
              LAMBDA c : c.id \notin dead \cup UNION {txs[u].inserted : u \in Clients})

\* Rows carrying an uncommitted update of another client: an UPDATE that
\* reaches one of them waits for that transaction to end.
LockedByOthers(t) == UNION {{r.id : r \in txs[u].updated} : u \in Clients \ {t}}

\* The row versions an UPDATE leaves in the transaction's write set.
Overwrite(updated, after, ids) ==
    {r \in updated : r.id \notin ids} \cup {c \in Range(after) : c.id \in ids}

\* req, resp and last describe the call that the step just taken completed;
\* a step that completes no call leaves nothing to report.
Silent ==
    /\ req' = NoRequest
    /\ resp' = NoResponse
    /\ last' = [path |-> "none", canonical |-> NullId, demoted |-> {}]

KnownTxEmails ==
    KnownEmails(contacts) \cup ({txs[u].email : u \in Clients} \ {NULL})
KnownTxPhones ==
    KnownPhones(contacts) \cup ({txs[u].phoneNumber : u \in Clients} \ {NULL})

\* The controller hands a validated body to identify(); $transaction begins.
\* Clients are interchangeable: a request is served by the first free one.
Begin(t) ==
    /\ txs[t].pc = "idle"
    /\ \A u \in Clients : u < t => txs[u].pc # "idle"
    /\ calls < MaxCalls
    /\ calls' = calls + 1
    /\ \E email \in Offered(Emails, KnownTxEmails) \cup {NULL},
          phoneNumber \in Offered(Phones, KnownTxPhones) \cup {NULL} :
          /\ Present(email) \/ Present(phoneNumber)
          /\ txs' = [txs EXCEPT ![t] = [IdleTx EXCEPT !.pc = "match",
                                                      !.email = email,
                                                      !.phoneNumber = phoneNumber]]
    /\ Silent /\ UNCHANGED <<contacts, dead, process>>

\* Step 2 and step 4A.
Match(t) ==
    /\ txs[t].pc = "match"
    /\ \E m \in { [n |-> Len(directMatches), ids |-> PrimaryIdSet(directMatches)] :
                   directMatches \in FindDirectMatches(Snapshot(t), txs[t].email,
                                                       txs[t].phoneNumber) } :
          txs' = [txs EXCEPT ![t].pc = IF m.n = 0 THEN "createPrimary" ELSE "cluster",
                             ![t].primaryIds = m.ids]
    /\ Silent /\ UNCHANGED <<contacts, dead, calls, process>>

\* Mutant: the insert is refused when a row with the same email or the same
\* phone exists, as under a uniqueness constraint.
CreatePrimary_Unique(t) ==
    /\ txs[t].pc = "createPrimary"
    /\ Len(contacts) < MaxTxContacts
    /\ \A c \in Range(contacts) :
          \/ c.id \in dead
          \/ /\ ~(Present(c.email) /\ c.email = txs[t].email)
             /\ ~(Present(c.phoneNumber) /\ c.phoneNumber = txs[t].phoneNumber)
    /\ \E created \in CreateContact(contacts, txs[t].email, txs[t].phoneNumber,
                                     NullId, "primary") :
          /\ contacts' = created
          /\ txs' = [txs EXCEPT ![t].pc = "commit",
                                ![t].path = "primary",
                                ![t].canonical = Len(created),
                                ![t].inserted = {Len(created)},
                                ![t].response = FormatResponse(<<created[Len(created)]>>)]
    /\ Silent /\ UNCHANGED <<dead, calls, process>>

\* Step 3: insert a primary and return it.
CreatePrimary(t) ==
    /\ txs[t].pc = "createPrimary"
    /\ Len(contacts) < MaxTxContacts
    /\ \E created \in CreateContact(contacts, txs[t].email, txs[t].phoneNumber,
                                     NullId, "primary") :
          /\ contacts' = created
          /\ txs' = [txs EXCEPT ![t].pc = "commit",
                                ![t].path = "primary",
                                ![t].canonical = Len(created),
                                ![t].inserted = {Len(created)},
                                ![t].response = FormatResponse(<<created[Len(created)]>>)]
    /\ Silent /\ UNCHANGED <<dead, calls, process>>

\* Mutant: the writes were sent outside the transaction and survive the throw.
Abort_KeepsWrites(t) ==
    /\ txs' = [txs EXCEPT ![t] = IdleTx]
    /\ contacts' = [i \in 1..Len(contacts) |->
                      IF \E r \in txs[t].updated : r.id = i
                      THEN CHOOSE r \in txs[t].updated : r.id = i
                      ELSE contacts[i]]
    /\ req' = [email |-> txs[t].email, phoneNumber |-> txs[t].phoneNumber]
    /\ resp' = InternalError
    /\ last' = [path |-> "fault", canonical |-> NullId, demoted |-> {}]
    /\ UNCHANGED <<dead, calls, process>>

\* What a rolled-back insert leaves behind: the id it took from the sequence
\* and the clock reading; nothing ever reads the rest of the row again.
RolledBack(c) ==
    [c EXCEPT !.email = NULL, !.phoneNumber = NULL, !.linkedId = NullId,
              !.linkPrecedence = "none"]

\* The callback throws, or a statement fails: the transaction is rolled back
\* and the error handler answers 500.
Abort(t) ==
    /\ txs' = [txs EXCEPT ![t] = IdleTx]
    /\ dead' = dead \cup txs[t].inserted
    /\ contacts' = [i \in 1..Len(contacts) |->
                      IF i \in txs[t].inserted THEN RolledBack(contacts[i])
                      ELSE contacts[i]]
    /\ req' = [email |-> txs[t].email, phoneNumber |-> txs[t].phoneNumber]
    /\ resp' = InternalError
    /\ last' = [path |-> "fault", canonical |-> NullId, demoted |-> {}]
    /\ UNCHANGED <<calls, process>>

\* Steps 4B and 4C: fetch the cluster and elect the oldest primary.
Cluster(t) ==
    /\ txs[t].pc = "cluster"
    /\ \E primariesInCluster \in
            { PrimariesInCluster(cluster) :
              cluster \in FetchCluster(Snapshot(t), txs[t].primaryIds) } :
          IF primariesInCluster = <<>> THEN Abort(t)
          ELSE /\ txs' = [txs EXCEPT
                            ![t].pc = IF Len(primariesInCluster) = 1
                                      THEN "exact" ELSE "reparent",
                            ![t].primaryIds = {},
                            ![t].canonical = primariesInCluster[1].id,
                            ![t].extras = [i \in 1..(Len(primariesInCluster) - 1) |->
                                             primariesInCluster[i + 1].id],
                            ![t].demoted = Ids(Tail(primariesInCluster))]
               /\ Silent /\ UNCHANGED <<contacts, dead, calls, process>>

\* Mutant: the re-parenting statement is missing; the primary is demoted with
\* its secondaries still linked to it.
Reparent_NoWrite(t) ==
    /\ txs[t].pc = "reparent"
    /\ txs' = [txs EXCEPT ![t].pc = "demote"]
    /\ Silent /\ UNCHANGED <<contacts, dead, calls, process>>

\* Step 4D, first statement: re-parent the children of the next extra primary.
Reparent(t) ==
    /\ txs[t].pc = "reparent"
    /\ LET before == Snapshot(t)
           demotedId == txs[t].extras[1]
           ids == {c.id : c \in {d \in Range(before) :
                                   d.linkedId = demotedId /\ d.deletedAt = NULL}}
       IN  /\ ids \cap LockedByOthers(t) = {}
           /\ txs' = [txs EXCEPT
                        ![t].pc = "demote",
                        ![t].updated =
                            Overwrite(@, ReparentSecondaries(before, demotedId,
                                                             txs[t].canonical), ids)]
    /\ Silent /\ UNCHANGED <<contacts, dead, calls, process>>

\* Step 4D, second statement: demote that primary.
Demote(t) ==
    /\ txs[t].pc = "demote"
    /\ LET before == Snapshot(t)
           demotedId == txs[t].extras[1]
       IN  /\ demotedId \notin LockedByOthers(t)
           /\ txs' = [txs EXCEPT
                        ![t].pc = IF Len(txs[t].extras) = 1 THEN "exact" ELSE "reparent",
                        ![t].extras = Tail(@),
                        ![t].updated =
                            Overwrite(@, DemoteToSecondary(before, demotedId,
                                                           txs[t].canonical),
                                      {demotedId})]
    /\ Silent /\ UNCHANGED <<contacts, dead, calls, process>>

\* Step 4E: is there a row with exactly this input?
Exact(t) ==
    /\ txs[t].pc = "exact"
    /\ txs' = [txs EXCEPT
                 ![t].pc = IF FindExactMatch(Snapshot(t), txs[t].email,
                                             txs[t].phoneNumber) # {}
                           THEN "final" ELSE "createSecondary",
                 ![t].path = "exact"]
    /\ Silent /\ UNCHANGED <<contacts, dead, calls, process>>

\* Step 4F: insert the secondary.
CreateSecondary(t) ==
    /\ txs[t].pc = "createSecondary"
    /\ Len(contacts) < MaxTxContacts
    /\ \E created \in CreateContact(contacts, txs[t].email, txs[t].phoneNumber,
                                     txs[t].canonical, "secondary") :
          /\ contacts' = created
          /\ txs' = [txs EXCEPT ![t].pc = "final",
                                ![t].path = "secondary",
                                ![t].inserted = {Len(created)}]
    /\ Silent /\ UNCHANGED <<dead, calls, process>>

\* Mutant: the final cluster is the one fetched before the insert.
Final_BeforeInsert(t) ==
    /\ txs[t].pc = "final"
    /\ \E response \in { FormatResponse(finalCluster) :
                          finalCluster \in FetchFinalCluster(
                              SelectSeq(Snapshot(t), LAMBDA c : c.id \notin txs[t].inserted),
                              txs[t].canonical) } :
          IF response.status # 200 THEN Abort(t)
          ELSE /\ txs' = [txs EXCEPT ![t].pc = "commit", ![t].response = response]
               /\ Silent /\ UNCHANGED <<contacts, dead, calls, process>>

\* Step 4G: re-fetch the final cluster and format it.
Final(t) ==
    /\ txs[t].pc = "final"
    /\ \E response \in { FormatResponse(finalCluster) :
                          finalCluster \in FetchFinalCluster(Snapshot(t),
                                                             txs[t].canonical) } :
          IF response.status # 200 THEN Abort(t)
          ELSE /\ txs' = [txs EXCEPT ![t].pc = "commit", ![t].response = response]
               /\ Silent /\ UNCHANGED <<contacts, dead, calls, process>>

\* Mutant: the transaction's updates are dropped at commit.
Commit_InsertsOnly(t) ==
    /\ txs[t].pc = "commit"
    /\ txs' = [txs EXCEPT ![t] = IdleTx]
    /\ req' = [email |-> txs[t].email, phoneNumber |-> txs[t].phoneNumber]
    /\ resp' = txs[t].response
    /\ last' = [path |-> txs[t].path, canonical |-> txs[t].canonical,
                demoted |-> txs[t].demoted]
    /\ UNCHANGED <<contacts, dead, calls, process>>

\* The callback returned: every write of the transaction becomes visible at
\* once and the controller answers 200.
Commit(t) ==
    /\ txs[t].pc = "commit"
    /\ contacts' = [i \in 1..Len(contacts) |->
                      IF \E r \in txs[t].updated : r.id = i
                      THEN CHOOSE r \in txs[t].updated : r.id = i
                      ELSE contacts[i]]
    /\ txs' = [txs EXCEPT ![t] = IdleTx]
    /\ req' = [email |-> txs[t].email, phoneNumber |-> txs[t].phoneNumber]
    /\ resp' = txs[t].response
    /\ last' = [path |-> txs[t].path, canonical |-> txs[t].canonical,
                demoted |-> txs[t].demoted]
    /\ UNCHANGED <<dead, calls, process>>

\* A store fault at any statement of an open transaction.
Fault(t) ==
    /\ txs[t].pc # "idle"
    /\ Abort(t)

\* One statement of client t.
Step(t) ==
    \/ Begin(t)
    \/ Match(t)
    \/ CreatePrimary(t)
    \/ Cluster(t)
    \/ Reparent(t)
    \/ Demote(t)
    \/ Exact(t)
    \/ CreateSecondary(t)
    \/ Final(t)
    \/ Commit(t)
    \/ Fault(t)

TxNext == \E t \in 1..MaxTxClients : Step(t)

TxSpec == Init /\ [][TxNext]_vars

\* Runs of single statements with one request at a time, any of which may fail.
FaultNext == Step(1)

FaultSpec == Init /\ [][FaultNext]_vars

\* Runs in which the first requests, one for each client, may overlap (the
\* race) and every later request is received only when no transaction is open.
BeginInTurn(t) ==
    /\ calls >= MaxClients => \A u \in Clients : txs[u].pc = "idle"
    /\ Begin(t)

RecoveryNext ==
    \E t \in Clients :
        \/ BeginInTurn(t)
        \/ Match(t)
        \/ CreatePrimary(t)
        \/ Cluster(t)
        \/ Reparent(t)
        \/ Demote(t)
        \/ Exact(t)
        \/ CreateSecondary(t)
        \/ Final(t)
        \/ Commit(t)
        \/ Fault(t)

RecoverySpec == Init /\ [][RecoveryNext]_vars

(* --------------------- request bodies (HttpSpec) ----------------------- *)

\* A key the JSON body does not have (undefined).
Absent == "undefined"
\* A string of whitespace only, a string of the wrong format, and a valid
\* value with whitespace around it.
Blank == " "
Malformed == "bad"
Padded(v) == " " \o v \o " "

\* String.prototype.trim, on the strings requests are made of.
Trim(s) ==
    IF s = Blank THEN ""
    ELSE IF \E v \in Range(Emails) \cup Range(Phones) : s = Padded(v)
         THEN CHOOSE v \in Range(Emails) \cup Range(Phones) : s = Padded(v)
         ELSE s

\* !v for an optional string: undefined, null and "" are falsy.
Falsy(v) == v \in {Absent, NULL, ""}

\* v ?? null
OrNull(v) == IF v = Absent THEN NULL ELSE v

\* z.string().trim().<format>.nullable().optional() on one field, the format
\* being that of an email or of a phone number.
ParseField(raw, wellFormed) ==
    IF raw \in {Absent, NULL} THEN [success |-> TRUE, data |-> raw]
    ELSE [success |-> Trim(raw) \in wellFormed, data |-> Trim(raw)]

\* The .refine() of IdentifySchema.
AtLeastOne(data) ==
    \/ data.email \notin {Absent, NULL} /\ data.email # ""
    \/ data.phoneNumber \notin {Absent, NULL} /\ data.phoneNumber # ""

\* Mutant: the schema has lost its .refine().
SafeParse_NoRefine(body) ==
    LET email == ParseField(body.email, Range(Emails))
        phoneNumber == ParseField(body.phoneNumber, Range(Phones))
        data == [email |-> email.data, phoneNumber |-> phoneNumber.data]
    IN  [success |-> email.success /\ phoneNumber.success, data |-> data]

\* IdentifySchema.safeParse(req.body)
SafeParse(body) ==
    LET email == ParseField(body.email, Range(Emails))
        phoneNumber == ParseField(body.phoneNumber, Range(Phones))
        data == [email |-> email.data, phoneNumber |-> phoneNumber.data]
    IN  [success |-> email.success /\ phoneNumber.success /\ AtLeastOne(data),
         data |-> data]

\* res.status(400), from the controller or from the error handler for an
\* error carrying statusCode 400.
BadRequest == [status |-> 400, contact |-> NoContact]

\* What a field of a body can be: missing in one of three ways, blank,
\* malformed, or a value, bare or padded.
RawFields(offered) ==
    {Absent, NULL, "", Blank, Malformed} \cup offered \cup {Padded(v) : v \in offered}

\* The request is answered 400 and nothing else happens; how names who
\* refused it.
Refuse(body, how) ==
    /\ req' = body
    /\ resp' = BadRequest
    /\ last' = [path |-> how, canonical |-> NullId, demoted |-> {}]
    /\ UNCHANGED <<contacts, txs, dead, calls, process>>

\* identify(input): the guard throws an error with statusCode 400, which the
\* error handler answers; otherwise prisma.$transaction begins.
Enter(t, body, input, refused, entered) ==
    IF Falsy(input.email) /\ Falsy(input.phoneNumber)
    THEN Refuse(body, refused)
    ELSE /\ calls < MaxCalls
         /\ calls' = calls + 1
         /\ txs' = [txs EXCEPT ![t] = [IdleTx EXCEPT !.pc = "match",
                                                     !.email = OrNull(input.email),
                                                     !.phoneNumber = OrNull(input.phoneNumber)]]
         /\ req' = body
         /\ resp' = NoResponse
         /\ last' = [path |-> entered, canonical |-> NullId, demoted |-> {}]
         /\ UNCHANGED <<contacts, dead, process>>

\* POST /identify with any body.
IdentifyController(t) ==
    /\ txs[t].pc = "idle"
    /\ \E email \in RawFields(Offered(Emails, KnownEmails(contacts))),
          phoneNumber \in RawFields(Offered(Phones, KnownPhones(contacts))) :
          LET body == [email |-> email, phoneNumber |-> phoneNumber]
              parsed == SafeParse(body)
          IN  IF ~parsed.success THEN Refuse(body, "rejected")
              ELSE Enter(t, body,
                         [email |-> OrNull(parsed.data.email),
                          phoneNumber |-> OrNull(parsed.data.phoneNumber)],
                         "caught", "accepted")

\* identify(input) called without the controller: each field undefined, null,
\* "" or a value, a value never next to "".
IdentifyService(t) ==
    /\ txs[t].pc = "idle"
    /\ \E email \in {Absent, NULL, ""} \cup Offered(Emails, KnownEmails(contacts)),
          phoneNumber \in {Absent, NULL, ""} \cup Offered(Phones, KnownPhones(contacts)) :
          /\ (email = "" \/ phoneNumber = "") => Falsy(email) /\ Falsy(phoneNumber)
          /\ Enter(t, [email |-> email, phoneNumber |-> phoneNumber],
                   [email |-> email, phoneNumber |-> phoneNumber],
                   "thrown", "entered")

\* Runs of single statements, one request at a time, with bodies of any kind.
HttpNext ==
    \/ IdentifyController(1)
    \/ IdentifyService(1)
    \/ Match(1)
    \/ CreatePrimary(1)
    \/ Cluster(1)
    \/ Reparent(1)
    \/ Demote(1)
    \/ Exact(1)
    \/ CreateSecondary(1)
    \/ Final(1)
    \/ Commit(1)

HttpSpec == Init /\ [][HttpNext]_vars

(* ------------------- server.ts: shutdown (ShutdownSpec) ---------------- *)

\* The signals with a handler that calls shutdown().
Signals == {"SIGTERM", "SIGINT"}

\* process.exit() has not been called.
Running == process.exitCode = NoExit

\* process.exit(code): nothing runs after it.
Exit(code, by, prisma) ==
    /\ process' = [process EXCEPT !.exitCode = code, !.exitedBy = by,
                                  !.prisma = prisma]
    /\ UNCHANGED <<contacts, req, resp, last, txs, dead, calls>>

\* The listening server accepts a connection.
Accept ==
    /\ Running
    /\ process.server = "listening"
    /\ process.connections < MaxConnections
    /\ process' = [process EXCEPT !.connections = @ + 1]
    /\ UNCHANGED <<contacts, req, resp, last, txs, dead, calls>>

\* A request arrives on an open connection, or the request being served takes
\* its next step.
Serve ==
    /\ Running
    /\ process.connections > 0
    /\ Step(1)

\* A connection ends, whenever its client or its keep-alive timeout decides;
\* the one with a request on it stays until the request is answered.
EndConnection ==
    /\ Running
    /\ process.connections > (IF txs[1].pc = "idle" THEN 0 ELSE 1)
    /\ process' = [process EXCEPT !.connections = @ - 1]
    /\ UNCHANGED <<contacts, req, resp, last, txs, dead, calls>>

\* Mutant: shutdown() disconnects the database without waiting for the server.
Shutdown_DisconnectsAtOnce(signal) ==
    /\ Running
    /\ process.signals < MaxSignals
    /\ LET n == process.signals + 1
       IN  process' = [process EXCEPT
                         !.signals = n,
                         !.server = IF @ = "listening" THEN "closing" ELSE @,
                         !.disconnecting = @ \cup {n},
                         !.timers = @ \cup {n}]
    /\ UNCHANGED <<contacts, req, resp, last, txs, dead, calls>>

\* shutdown(signal): server.close(callback) stops the server from accepting
\* and leaves the callback waiting for the 'close' event (a server that is
\* already closing or closed takes the callback all the same); then the
\* force-exit timer is armed.
Shutdown(signal) ==
    /\ Running
    /\ process.signals < MaxSignals
    /\ LET n == process.signals + 1
       IN  process' = [process EXCEPT
                         !.signals = n,
                         !.server = IF @ = "listening" THEN "closing" ELSE @,
                         !.onClose = @ \cup {n},
                         !.timers = @ \cup {n}]
    /\ UNCHANGED <<contacts, req, resp, last, txs, dead, calls>>

\* The server emits 'close' once it accepts nothing and its last connection
\* has ended: every waiting callback runs up to its await of
\* prisma.$disconnect().
EmitClose ==
    /\ Running
    /\ process.server # "listening"
    /\ process.connections = 0
    /\ process.onClose # {}
    /\ process' = [process EXCEPT !.server = "closed",
                                  !.disconnecting = @ \cup process.onClose,
                                  !.onClose = {}]
    /\ UNCHANGED <<contacts, req, resp, last, txs, dead, calls>>

\* prisma.$disconnect() resolves: process.exit(0).
DisconnectResolves ==
    /\ Running
    /\ process.disconnecting # {}
    /\ Exit(0, "disconnected", "disconnected")

\* prisma.$disconnect() rejects: the catch block calls process.exit(1).
DisconnectRejects ==
    /\ Running
    /\ process.disconnecting # {}
    /\ Exit(1, "error during shutdown", process.prisma)

\* The timer armed by shutdown() fires, 10 seconds after its signal, in a
\* process that is still running: process.exit(1).
ForceExit ==
    /\ Running
    /\ process.timers # {}
    /\ Exit(1, "shutdown timeout", process.prisma)

ShutdownNext ==
    \/ Accept
    \/ Serve
    \/ EndConnection
    \/ \E signal \in Signals : Shutdown(signal)
    \/ EmitClose
    \/ DisconnectResolves
    \/ DisconnectRejects
    \/ ForceExit

\* The life of the process.  An armed timer fires: until the graceful path
\* has ended in process.exit, the server's handle, an open connection or the
\* pending disconnect keeps the event loop running.
ShutdownSpec == Init /\ [][ShutdownNext]_vars /\ WF_vars(ForceExit)

(* ------------------------- clusters and links -------------------------- *)

Live(store) == {c \in Range(store) : c.deletedAt = NULL}

\* Two rows are connected when they have the same email or the same phone.
Shares(a, b) ==
    \/ Present(a.email) /\ a.email = b.email
    \/ Present(a.phoneNumber) /\ a.phoneNumber = b.phoneNumber

RECURSIVE Connected(_, _)
Connected(store, S) ==
    LET grown == S \cup {d \in Live(store) : \E x \in S : Shares(x, d)}
    IN  IF grown = S THEN S ELSE Connected(store, grown)

\* The cluster of a row: everything connected to it, directly or transitively.
ClusterOf(store, c) == Connected(store, {c})

Clusters(store) == {ClusterOf(store, c) : c \in Live(store)}

\* The id a row's link structure names as its primary.
PrimaryOf(c) == IF IsPrimary(c) THEN c.id ELSE c.linkedId

\* The rows a request matches directly.
Matching(store, r) ==
    {c \in Live(store) :
        \/ Present(r.email) /\ c.email = r.email
        \/ Present(r.phoneNumber) /\ c.phoneNumber = r.phoneNumber}

\* The last call merged a cluster that already had a secondary.
MergedWithChildren ==
    \E d \in last.demoted : \E s \in Range(contacts) :
        /\ s.id # Len(contacts) /\ s.id # d
        /\ s.linkedId = last.canonical
        /\ Shares(s, contacts[d]) /\ ~Shares(s, contacts[last.canonical])

(* ------------------------------- claims -------------------------------- *)

\* C1: after every completed call, every cluster (maximal set of rows
\* connected by equal email or equal phone) has exactly one primary.
C1_OnePrimaryPerCluster ==
    \A K \in Clusters(contacts) : Cardinality({c \in K : IsPrimary(c)}) = 1

\* A merge has happened and left a cluster of at least three rows.
C1_Witness ==
    /\ last.demoted # {}
    /\ \E K \in Clusters(contacts) : Cardinality(K) >= 3

\* C2: every secondary has a non-null linkedId naming a primary, the primary
\* of its own cluster; no linkedId names a secondary.
C2_Flat ==
    \A c \in Range(contacts) :
        /\ IsSecondary(c) =>
              /\ c.linkedId # NullId
              /\ c.linkedId \in 1..Len(contacts)
              /\ IsPrimary(contacts[c.linkedId])
              /\ contacts[c.linkedId] \in ClusterOf(contacts, c)
        /\ c.linkedId # NullId => ~IsSecondary(contacts[c.linkedId])

\* A demoted primary's former secondary now hangs off the canonical primary.
C2_Witness == MergedWithChildren

\* C3: links coincide with connectivity: two live rows are connected by a
\* chain of shared emails or phones exactly when they have the same primary.
C3_LinksAreClusters ==
    \A a \in Live(contacts), b \in Live(contacts) :
        (b \in ClusterOf(contacts, a)) <=> (PrimaryOf(a) = PrimaryOf(b))

\* A merged cluster and an untouched one exist side by side.
C3_Witness ==
    /\ last.demoted # {}
    /\ Cardinality(Clusters(contacts)) >= 2

\* C4: repeating the input of the call just made inserts no row, changes no
\* row and returns the same response; a single call inserts at most one row.
C4_Idempotent ==
    /\ [](req # NoRequest =>
            \A again \in IdentifyTx(contacts, req.email, req.phoneNumber) :
                again.contacts = contacts /\ again.resp = resp)
    /\ [][Len(contacts') <= Len(contacts) + 1]_vars

\* The call just made merged two clusters and inserted the bridging row.
C4_Witness ==
    /\ last.path = "secondary"
    /\ last.demoted # {}
    /\ Len(resp.contact.secondaryContactIds) >= 2

\* C5: an input that matches no row inserts exactly one row, a primary with
\* linkedId null carrying the input, changes no other row, and is answered
\* with that row alone: its id, no secondaries, and exactly the given values.
C5_NewIdentity ==
    [][ (/\ Present(req'.email) \/ Present(req'.phoneNumber)
         /\ Matching(contacts, req') = {})
        => /\ Len(contacts') = Len(contacts) + 1
           /\ SubSeq(contacts', 1, Len(contacts)) = contacts
           /\ contacts'[Len(contacts')] =
                [id             |-> Len(contacts) + 1,
                 email          |-> req'.email,
                 phoneNumber    |-> req'.phoneNumber,
                 linkedId       |-> NullId,
                 linkPrecedence |-> "primary",
                 createdAt      |-> contacts'[Len(contacts')].createdAt,
                 deletedAt      |-> NULL]
           /\ resp' = [status |-> 200,
                       contact |->
                         [primaryContactId    |-> Len(contacts) + 1,
                          emails              |-> IF Present(req'.email)
                                                  THEN <<req'.email>> ELSE <<>>,
                          phoneNumbers        |-> IF Present(req'.phoneNumber)
                                                  THEN <<req'.phoneNumber>> ELSE <<>>,
                          secondaryContactIds |-> <<>>]] ]_vars

\* A phone-only request has just created a primary next to existing rows.
C5_Witness ==
    /\ last.path = "primary"
    /\ Len(contacts) >= 3
    /\ req.email = NULL
    /\ resp.contact.emails = <<>>

\* C6: the primary of each cluster has the earliest createdAt of the cluster
\* and, in a sequential execution from an empty store, the smallest id.
C6_PrimaryIsOldestAndFirst ==
    \A K \in Clusters(contacts) : \A p \in K :
        IsPrimary(p) => \A c \in K : p.createdAt <= c.createdAt /\ p.id <= c.id

\* The request joins the email of one row with the phone of the other.
BridgeOf(r, a, b) ==
    \/ /\ Present(a.email) /\ Present(b.phoneNumber)
       /\ r.email = a.email /\ r.phoneNumber = b.phoneNumber
    \/ /\ Present(b.email) /\ Present(a.phoneNumber)
       /\ r.email = b.email /\ r.phoneNumber = a.phoneNumber

RECURSIVE Permutations(_)
Permutations(S) ==
    IF S = {} THEN {<<>>}
    ELSE UNION { { <<c>> \o rest : rest \in Permutations(S \ {c}) } : c \in S }

\* C7: a request bridging two primaries, A older than B, elects A whether
\* it joins A's email with B's phone or B's email with A's phone, and in
\* whatever order the rows of the two clusters are handed to the election.
C7_MergeDeterminism ==
    [][ \A a \in Live(contacts), b \in Live(contacts) :
          (/\ IsPrimary(a) /\ IsPrimary(b)
           /\ a.createdAt < b.createdAt
           /\ BridgeOf(req', a, b))
          => /\ resp'.status = 200
             /\ resp'.contact.primaryContactId = a.id
             /\ last'.canonical = a.id
             /\ IsPrimary(contacts'[a.id])
             /\ \A order \in Permutations(ClusterOf(contacts, a) \cup ClusterOf(contacts, b)) :
                    PrimariesInCluster(order)[1].id = a.id ]_vars

\* The newer primary's email with the older primary's phone has just been
\* sent, and the newer primary was demoted.
C7_Witness ==
    \E d \in last.demoted :
        /\ contacts[last.canonical].createdAt < contacts[d].createdAt
        /\ Present(req.email) /\ req.email = contacts[d].email
        /\ Present(req.phoneNumber)
        /\ req.phoneNumber = contacts[last.canonical].phoneNumber

\* C8: when a request bridges two separate clusters, the older cluster's
\* primary stays primary, the newer one's primary becomes a secondary linked
\* to it, so do the newer one's former secondaries, and the response lists
\* the demoted primary, every secondary, every email and every phone of both.
C8_Bridge ==
    [][ \A A \in Clusters(contacts), B \in Clusters(contacts) :
        \A pa \in A, pb \in B :
          (/\ A # B /\ IsPrimary(pa) /\ IsPrimary(pb)
           /\ pa.createdAt < pb.createdAt
           /\ Matching(contacts, req') \cap A # {}
           /\ Matching(contacts, req') \cap B # {})
          => /\ IsPrimary(contacts'[pa.id])
             /\ contacts'[pa.id].linkedId = NullId
             /\ IsSecondary(contacts'[pb.id])
             /\ contacts'[pb.id].linkedId = pa.id
             /\ \A s \in B : s.linkedId = pb.id => contacts'[s.id].linkedId = pa.id
             /\ resp'.status = 200
             /\ resp'.contact.primaryContactId = pa.id
             /\ {c.id : c \in (A \cup B) \ {pa}}
                  \subseteq Range(resp'.contact.secondaryContactIds)
             /\ {c.email : c \in A \cup B} \ {NULL}
                  \subseteq Range(resp'.contact.emails)
             /\ {c.phoneNumber : c \in A \cup B} \ {NULL}
                  \subseteq Range(resp'.contact.phoneNumbers) ]_vars

\* A strictly newer primary that had a secondary of its own was just demoted,
\* and the response lists that secondary.
C8_Witness ==
    /\ MergedWithChildren
    /\ \E d \in last.demoted :
          /\ contacts[last.canonical].createdAt < contacts[d].createdAt
          /\ d \in Range(resp.contact.secondaryContactIds)
    /\ Len(resp.contact.secondaryContactIds) = 3

\* A row that shared no email and no phone with any earlier row: it was
\* created as an independent primary.
Independent(store, c) == \A d \in Range(store) : d.id < c.id => ~Shares(c, d)

\* C9: once pairwise bridging requests have connected three or more
\* independently created primaries, there is one cluster, its primary is the
\* oldest of them (none has an earlier createdAt), every other row is a
\* secondary linked directly to it, and the last response has all their emails.
C9_ChainMerge ==
    LET K == {c \in Live(contacts) : Independent(contacts, c)}
    IN  (Cardinality(K) >= 3 /\ Cardinality(Clusters(contacts)) = 1)
        => \E p \in K :
              /\ IsPrimary(p)
              /\ \A c \in Range(contacts) :
                    /\ p.createdAt <= c.createdAt
                    /\ c # p => IsSecondary(c) /\ c.linkedId = p.id
              /\ resp.status = 200
              /\ resp.contact.primaryContactId = p.id
              /\ {c.email : c \in K} \subseteq Range(resp.contact.emails)

\* Three independent primaries and two bridging rows form one cluster, the
\* second bridge having demoted a primary.
C9_Witness ==
    /\ Len(contacts) = 5
    /\ Cardinality({c \in Live(contacts) : Independent(contacts, c)}) = 3
    /\ Cardinality(Clusters(contacts)) = 1
    /\ last.demoted # {}

FirstOfSecondaries(primary, field(_)) ==
    LET having == {c \in Live(contacts) :
                     IsSecondary(c) /\ c.linkedId = primary.id /\ Present(field(c))}
    IN  IF having = {} THEN <<>>
        ELSE <<field(CHOOSE c \in having : \A d \in having : c.id <= d.id)>>

EmailOf(c) == c.email
PhoneOf(c) == c.phoneNumber

\* The first element of a list, as a list of at most one element.
First(list) == IF list = <<>> THEN <<>> ELSE <<list[1]>>

NoDuplicates(list) ==
    \A i \in 1..Len(list), j \in 1..Len(list) : list[i] = list[j] => i = j

\* C11: in every response, secondaryContactIds is strictly ascending, has no
\* duplicates and does not contain primaryContactId; emails and phoneNumbers
\* contain no duplicate and no null.
C11_ResponseSets ==
    resp.status = 200 =>
        LET r == resp.contact
        IN  /\ \A i \in 1..(Len(r.secondaryContactIds) - 1) :
                  r.secondaryContactIds[i] < r.secondaryContactIds[i + 1]
            /\ NoDuplicates(r.secondaryContactIds)
            /\ r.primaryContactId \notin Range(r.secondaryContactIds)
            /\ NoDuplicates(r.emails) /\ NULL \notin Range(r.emails)
            /\ NoDuplicates(r.phoneNumbers) /\ NULL \notin Range(r.phoneNumbers)

\* The response covers three secondaries, two members carry the same email
\* and one member has no email at all.
C11_Witness ==
    /\ resp.status = 200
    /\ Len(resp.contact.secondaryContactIds) = 3
    /\ \E a \in Range(contacts), b \in Range(contacts) :
          a.id # b.id /\ Present(a.email) /\ a.email = b.email
    /\ \E c \in Range(contacts) : ~Present(c.email)

\* The cluster a request belongs to: everything connected to a row it matches.
ClusterOfRequest(store, r) == Connected(store, Matching(store, r))

\* C12: the response of every call describes the whole cluster of the input
\* as it is after the call: secondaryContactIds is exactly the ids of its
\* non-primary rows, emails exactly its distinct non-null emails, and
\* phoneNumbers exactly its distinct non-null phone numbers.
C12_ResponseComplete ==
    (req # NoRequest /\ resp.status = 200) =>
        LET K == ClusterOfRequest(contacts, req)
        IN  /\ K # {}
            /\ Range(resp.contact.secondaryContactIds) = {c.id : c \in {d \in K : ~IsPrimary(d)}}
            /\ Range(resp.contact.emails) = {c.email : c \in K} \ {NULL}
            /\ Range(resp.contact.phoneNumbers) = {c.phoneNumber : c \in K} \ {NULL}
            /\ resp.contact.primaryContactId \in {c.id : c \in K}

\* The call merged two clusters and inserted a row; the response lists the
\* demoted primary, the new row and an older secondary.
C12_Witness ==
    /\ last.path = "secondary"
    /\ last.demoted # {}
    /\ Len(contacts) = 4
    /\ Range(resp.contact.secondaryContactIds) = (1..4) \ {last.canonical}

\* C13: a row is inserted only for new information: when the input's email
\* and the input's phone number each already occur on some row of the
\* (merged) cluster, the call inserts no row.
C13_OnlyNewInformation ==
    [][ (/\ Present(req'.email) \/ Present(req'.phoneNumber)
         /\ Present(req'.email) => \E c \in Live(contacts) : c.email = req'.email
         /\ Present(req'.phoneNumber) =>
               \E c \in Live(contacts) : c.phoneNumber = req'.phoneNumber)
        => Len(contacts') = Len(contacts) ]_vars

\* C14: with exactly two rows, both independent primaries, a request with the
\* older one's email and the newer one's phone is answered with the older id,
\* both emails and both phones older first, and one secondary id: the newer row.
C14_BridgeTwoResponse ==
    [][ (/\ Len(contacts) = 2
         /\ IsPrimary(contacts[1]) /\ IsPrimary(contacts[2])
         /\ ~Shares(contacts[1], contacts[2])
         /\ contacts[1].createdAt < contacts[2].createdAt
         /\ Present(contacts[1].email) /\ Present(contacts[1].phoneNumber)
         /\ Present(contacts[2].email) /\ Present(contacts[2].phoneNumber)
         /\ req'.email = contacts[1].email
         /\ req'.phoneNumber = contacts[2].phoneNumber)
        => resp' = [status |-> 200,
                    contact |->
                      [primaryContactId    |-> 1,
                       emails              |-> <<contacts[1].email, contacts[2].email>>,
                       phoneNumbers        |-> <<contacts[1].phoneNumber,
                                                 contacts[2].phoneNumber>>,
                       secondaryContactIds |-> <<2>>]] ]_vars

\* The request repeats one field of row p and brings, in the other field, a
\* value no row has.
ExtendsByEmail(store, r, p) ==
    /\ Present(r.phoneNumber) /\ r.phoneNumber = p.phoneNumber
    /\ Present(r.email) /\ r.email \notin KnownEmails(store)

ExtendsByPhone(store, r, p) ==
    /\ Present(r.email) /\ r.email = p.email
    /\ Present(r.phoneNumber) /\ r.phoneNumber \notin KnownPhones(store)

\* C15: an input sharing exactly one field with a single-row cluster, its
\* other field new to the store, inserts exactly one row, a secondary linked
\* to that primary and carrying the input, changes no existing row, and is
\* answered with the primary's id, the new row's id as the only secondary,
\* the shared value alone in its list, and in the list of the new field the
\* primary's own value (when it has one) followed by the new value.
C15_ExtendSingle ==
    [][ \A p \in Live(contacts) :
          (/\ ClusterOf(contacts, p) = {p}
           /\ ExtendsByEmail(contacts, req', p) \/ ExtendsByPhone(contacts, req', p))
          => /\ Len(contacts') = Len(contacts) + 1
             /\ SubSeq(contacts', 1, Len(contacts)) = contacts
             /\ IsPrimary(contacts'[p.id])
             /\ contacts'[Len(contacts')] =
                  [id             |-> Len(contacts) + 1,
                   email          |-> req'.email,
                   phoneNumber    |-> req'.phoneNumber,
                   linkedId       |-> p.id,
                   linkPrecedence |-> "secondary",
                   createdAt      |-> contacts'[Len(contacts')].createdAt,
                   deletedAt      |-> NULL]
             /\ resp' = [status |-> 200,
                         contact |->
                           [primaryContactId    |-> p.id,
                            emails              |-> AddUnique(AddUnique(<<>>, p.email),
                                                              req'.email),
                            phoneNumbers        |-> AddUnique(AddUnique(<<>>, p.phoneNumber),
                                                              req'.phoneNumber),
                            secondaryContactIds |-> <<Len(contacts) + 1>>]] ]_vars

\* A new email has just been attached to a primary that had an email and a
\* phone of its own and was alone in its cluster.
C15_Witness ==
    /\ last.path = "secondary" /\ last.demoted = {}
    /\ Len(contacts) >= 3
    /\ resp.contact.secondaryContactIds = <<Len(contacts)>>
    /\ Len(resp.contact.emails) = 2
    /\ Len(resp.contact.phoneNumbers) = 1
    /\ resp.contact.emails[1] = contacts[last.canonical].email
    /\ resp.contact.emails[2] = req.email
    /\ \A c \in Range(contacts) : c.id # Len(contacts) => c.email # req.email

\* The single-field requests that carry a value of some row of K.
LookupsOf(K) ==
    {[email |-> c.email, phoneNumber |-> NULL] : c \in {d \in K : Present(d.email)}}
    \cup {[email |-> NULL, phoneNumber |-> c.phoneNumber] :
            c \in {d \in K : Present(d.phoneNumber)}}

\* C16: a call supplying only an email or only a phone that some row
\* (primary or secondary) already has writes nothing and returns that row's
\* cluster under the cluster's primary, never under the matched secondary;
\* all such lookups with values of rows of one cluster return the same
\* response, and so did the last call if it was one of them.
C16_LookupConsistent ==
    \A K \in Clusters(contacts) :
        LET outs == UNION { IdentifyTx(contacts, r.email, r.phoneNumber) : r \in LookupsOf(K) }
        IN  /\ \A out \in outs :
                  /\ out.contacts = contacts
                  /\ out.resp.status = 200
                  /\ out.resp.contact.primaryContactId \in {c.id : c \in {d \in K : IsPrimary(d)}}
                  /\ Range(out.resp.contact.secondaryContactIds) =
                        {c.id : c \in {d \in K : ~IsPrimary(d)}}
                  /\ Range(out.resp.contact.emails) = {c.email : c \in K} \ {NULL}
                  /\ Range(out.resp.contact.phoneNumbers) = {c.phoneNumber : c \in K} \ {NULL}
            /\ Cardinality({out.resp : out \in outs}) = 1
            /\ (req \in LookupsOf(K) /\ last.path = "exact") =>
                  /\ last.demoted = {}
                  /\ resp \in {out.resp : out \in outs}

\* The last call looked up, by email alone, a value that only a secondary
\* has, in a cluster of three rows, and was answered under the primary.
C16_Witness ==
    /\ last.path = "exact"
    /\ req.phoneNumber = NULL
    /\ \A c \in Range(contacts) : c.email = req.email => IsSecondary(c)
    /\ Len(resp.contact.secondaryContactIds) = 2
    /\ IsPrimary(contacts[resp.contact.primaryContactId])

\* Invariants 1-3 of a table whose rows need not sit at the index of their id.
OnePrimary(store) ==
    \A K \in Clusters(store) : Cardinality({c \in K : IsPrimary(c)}) = 1

FlatLinks(store) ==
    \A c \in Live(store) :
        /\ IsSecondary(c) =>
              \E p \in ClusterOf(store, c) : p.id = c.linkedId /\ IsPrimary(p)
        /\ IsPrimary(c) => c.linkedId = NullId

LinksAreClusters(store) ==
    \A a \in Live(store), b \in Live(store) :
        (b \in ClusterOf(store, a)) <=> (PrimaryOf(a) = PrimaryOf(b))

\* C17: a call that faults at any statement, or throws for want of a primary,
\* is answered with the error and leaves the committed table as it was before
\* the call, nothing of its writes being visible to any later statement; the
\* committed table changes only when a call succeeds; and after every
\* successful call, earlier aborts or not, invariants 1-3 hold.
C17_Atomic ==
    /\ [][ last'.path = "fault" =>
             /\ resp' = InternalError
             /\ Committed' = Committed
             /\ \A u \in Clients : txs'[u].pc = "idle" => Snapshot(u)' = Committed' ]_vars
    /\ [][ Committed' # Committed => resp'.status = 200 ]_vars
    /\ [](resp.status = 200 =>
             /\ OnePrimary(Committed)
             /\ FlatLinks(Committed)
             /\ LinksAreClusters(Committed))

\* A call bridging two primaries has just faulted after its insert: the row
\* is dead and both primaries are still primaries.
C17_Witness ==
    /\ last.path = "fault"
    /\ dead # {}
    /\ \E a \in Range(Committed), b \in Range(Committed) :
          /\ a.id # b.id /\ IsPrimary(a) /\ IsPrimary(b)
          /\ Present(req.email) /\ req.email = a.email
          /\ Present(req.phoneNumber) /\ req.phoneNumber = b.phoneNumber

\* The ids of the rows client u has written in its open transaction.
WrittenBy(u) == txs[u].inserted \cup {r.id : r \in txs[u].updated}

\* C18: no statement reads a partly applied call.  Apart from the reader's own
\* writes, what any statement of any client sees is the committed table,
\* with none of the writes of the transactions still open; and the committed
\* table changes only by a commit that publishes a transaction's re-parented
\* rows, demoted primaries and inserted row all at once.
C18_NoIntermediateState ==
    /\ [](\A u \in Clients :
            {r \in Range(Snapshot(u)) : r.id \notin WrittenBy(u)}
              = {r \in Range(Committed) : r.id \notin WrittenBy(u)})
    /\ [][ Committed' # Committed =>
             \E t \in Clients :
                /\ txs[t].pc = "commit" /\ txs'[t].pc = "idle"
                /\ Committed' = Snapshot(t) ]_vars

\* One call has demoted a primary and not yet inserted its secondary, while
\* another call, which matched that primary, is about to fetch its cluster.
C18_Witness ==
    \E t \in Clients, u \in Clients :
        /\ t # u
        /\ txs[t].pc = "createSecondary"
        /\ txs[t].demoted # {}
        /\ txs[u].pc = "cluster"
        /\ txs[u].primaryIds \cap txs[t].demoted # {}

\* C19: nothing stops the duplicate-primary race.  A call that has observed
\* no direct match can always insert its primary, whatever rows other calls
\* have inserted or committed since (no lock, no uniqueness constraint), the
\* row it inserts is a primary carrying its input, and its commit is never
\* refused or retried; so two concurrent calls with the same unseen input
\* can each commit a primary.
C19_RaceNotPrevented ==
    \A t \in Clients :
        /\ (txs[t].pc = "createPrimary" /\ Len(contacts) < MaxTxContacts)
              => ENABLED CreatePrimary(t)
        /\ txs[t].pc = "commit" => ENABLED Commit(t)
        /\ (txs[t].pc = "commit" /\ txs[t].path = "primary") =>
              LET c == contacts[txs[t].canonical]
              IN  /\ txs[t].inserted = {c.id}
                  /\ IsPrimary(c) /\ c.linkedId = NullId
                  /\ c.email = txs[t].email /\ c.phoneNumber = txs[t].phoneNumber
                  /\ txs[t].response.status = 200
                  /\ txs[t].response.contact.primaryContactId = c.id

\* Two calls with the same unseen email and phone have both committed: the
\* committed table is two primaries with equal email and equal phone, one
\* connected cluster with two primaries.
C19_Witness ==
    /\ \A t \in Clients : txs[t].pc = "idle"
    /\ Len(Committed) = 2
    /\ IsPrimary(Committed[1]) /\ IsPrimary(Committed[2])
    /\ Present(Committed[1].email) /\ Present(Committed[1].phoneNumber)
    /\ Committed[1].email = Committed[2].email
    /\ Committed[1].phoneNumber = Committed[2].phoneNumber
    /\ ~OnePrimary(Committed)
    /\ resp.status = 200 /\ last.path = "primary"

NothingGiven(r) == Falsy(r.email) /\ Falsy(r.phoneNumber)

\* Exactly one field holds a valid value and the other is undefined or null.
OneGiven(r) ==
    \/ r.email \in Range(Emails) /\ r.phoneNumber \in {Absent, NULL}
    \/ r.phoneNumber \in Range(Phones) /\ r.email \in {Absent, NULL}

\* C21: a request with email and phoneNumber both absent, null or empty is
\* answered 400 with no transaction opened and the table unchanged: by the
\* controller itself when it comes as a body, and by the guard of identify()
\* when identify() is called directly.  A request with exactly one valid
\* field, the other absent or null, is not refused: its transaction opens on
\* that value, the other field null.
C21_Validation ==
    [][ /\ (last'.path \in {"rejected", "caught", "accepted"} /\ NothingGiven(req'))
           => /\ last'.path = "rejected"
              /\ resp' = BadRequest
              /\ UNCHANGED <<contacts, txs, dead, calls>>
        /\ (last'.path \in {"thrown", "entered"} /\ NothingGiven(req'))
           => /\ last'.path = "thrown"
              /\ resp' = BadRequest
              /\ UNCHANGED <<contacts, txs, dead, calls>>
        /\ (last'.path \in {"rejected", "caught", "accepted", "thrown", "entered"}
            /\ OneGiven(req'))
           => /\ last'.path \in {"accepted", "entered"}
              /\ resp'.status # 400
              /\ contacts' = contacts
              /\ txs'[1].pc = "match"
              /\ txs'[1].email = OrNull(req'.email)
              /\ txs'[1].phoneNumber = OrNull(req'.phoneNumber) ]_vars

\* A body with an empty email and no phoneNumber key has just been refused by
\* the controller while the table holds rows.
C21_Witness ==
    /\ last.path = "rejected"
    /\ req = [email |-> "", phoneNumber |-> Absent]
    /\ resp = BadRequest
    /\ Len(contacts) >= 2

\* The rows fetchCluster returns for request r: the matched rows' primaries
\* (a primary's own id, a secondary's linkedId) and everything linked to them.
FetchedFor(store, r) ==
    LET ids == {PrimaryOf(c) : c \in Matching(store, r)} \ {NullId}
    IN  {c \in Live(store) : c.id \in ids \/ c.linkedId \in ids}

\* C22: whenever a request has direct matches and the cluster fetched for it
\* holds no primary, the call is answered with an internal error and no
\* contact body, and the table is left exactly as it was; and every contact
\* body names as primary a live row that is a primary.
C22_InvariantFault ==
    [][ /\ (/\ last'.path # "none"
            /\ Matching(contacts, req') # {}
            /\ ~\E c \in FetchedFor(contacts, req') : IsPrimary(c))
           => /\ resp' = InternalError
              /\ last'.path = "fault"
              /\ contacts' = contacts
        /\ resp'.status = 200
           => \E p \in Live(contacts') :
                 p.id = resp'.contact.primaryContactId /\ IsPrimary(p) ]_vars

\* The request matched a live secondary whose primary is soft-deleted, brought
\* a new value with it, and was answered with the error.
C22_Witness ==
    /\ last.path = "fault"
    /\ resp = InternalError
    /\ Present(req.email) /\ Present(req.phoneNumber)
    /\ \E c \in Matching(contacts, req) :
          IsSecondary(c) /\ contacts[c.linkedId].deletedAt # NULL
    /\ \/ req.email \notin KnownEmails(contacts)
       \/ req.phoneNumber \notin KnownPhones(contacts)

\* C23: in a run of complete calls, one after the other from the empty table,
\* with no soft-deletion and no store fault, every call made with at least one
\* field is answered 200 with a contact body naming a primary: the fault for a
\* cluster without a primary never occurs.
C23_AlwaysAnswered ==
    req # NoRequest =>
        /\ resp.status = 200
        /\ last.path \in {"primary", "exact", "secondary"}
        /\ resp.contact.primaryContactId \in 1..Len(contacts)
        /\ IsPrimary(contacts[resp.contact.primaryContactId])

\* The fourth row has just been inserted by a call whose one known value was
\* carried by secondaries only.
C23_Witness ==
    /\ resp.status = 200
    /\ last.path = "secondary" /\ last.demoted = {}
    /\ Len(contacts) = 4
    /\ \A c \in Range(contacts) :
          (c.id # 4 /\ (c.email = req.email \/ c.phoneNumber = req.phoneNumber))
             => IsSecondary(c)

\* No live secondary of the table is linked to a secondary.
NoChain(store) ==
    \A c \in Live(store) :
        IsSecondary(c) => ~\E d \in Range(store) : d.id = c.linkedId /\ IsSecondary(d)

\* C24: in a call that runs on its own, each demotion is written when no live
\* row is linked to the primary being demoted any more (its secondaries were
\* re-parented by the statement before), and every single write of the call
\* (re-parenting, demotion, insert) leaves the table, as the call sees it,
\* without a secondary linked to a secondary if it was so before that write,
\* also when the call demotes several primaries.
C24_WriteOrder ==
    [][ \A t \in Clients :
          (/\ calls > MaxClients
           /\ txs[t].pc \in {"reparent", "demote", "createSecondary"}
           /\ txs'[t].pc \notin {txs[t].pc, "idle"}
           /\ NoChain(Snapshot(t)))
          => /\ NoChain(Snapshot(t)')
             /\ txs[t].pc = "demote" =>
                   /\ \A c \in Live(Snapshot(t)) : c.linkedId # txs[t].extras[1]
                   /\ \E d \in Range(Snapshot(t)') :
                         /\ d.id = txs[t].extras[1]
                         /\ IsSecondary(d) /\ d.linkedId = txs[t].canonical
             /\ txs[t].pc = "reparent" =>
                   \E d \in Range(Snapshot(t)') :
                         d.id = txs[t].extras[1] /\ IsPrimary(d) ]_vars

\* A call running on its own has demoted one primary and is about to
\* re-parent the secondaries of a second one.
C24_Witness ==
    \E t \in Clients :
        /\ calls > MaxClients
        /\ txs[t].pc = "reparent"
        /\ Cardinality(txs[t].demoted) = 2
        /\ Len(txs[t].extras) = 1
        /\ \E r \in txs[t].updated : IsSecondary(r) /\ r.linkedId = txs[t].canonical

\* C25: whatever calls run at the same time, no committed state of the table
\* holds a row whose linkedId names a secondary.
C25_NoChainCommitted ==
    \A c \in Range(Committed) :
        c.linkedId # NullId =>
            ~\E d \in Range(Committed) : d.id = c.linkedId /\ IsSecondary(d)

\* Row c carries exactly what request r gives: both values when r has both,
\* the one given value otherwise.
ExactRow(c, r) ==
    /\ Present(r.email) => c.email = r.email
    /\ Present(r.phoneNumber) => c.phoneNumber = r.phoneNumber

\* The rows of the second table whose id the first does not have.
NewRows(before, after) ==
    {c \in Range(after) : \A d \in Range(before) : d.id # c.id}

\* C26: a call commits at most one new row.  It is a primary with linkedId
\* null carrying the input exactly when the input has no direct match; it is
\* a secondary linked to the canonical primary and carrying the input exactly
\* when there is a direct match and no live row carries the exact input; in
\* the remaining case (and when the call fails) no row is added.  The exact
\* match is looked up when every demotion has been written and nothing has
\* been inserted, and the final cluster read afterwards contains the inserted
\* row.
C26_InsertionRule ==
    [][ /\ Cardinality(NewRows(Committed, Committed')) <= 1
        /\ last'.path \in {"primary", "exact", "secondary"} =>
              LET new == NewRows(Committed, Committed')
                  matched == Matching(Committed, req') # {}
                  known == \E c \in Live(Committed) : ExactRow(c, req')
              IN  /\ last'.path = "primary" <=> ~matched
                  /\ last'.path = "secondary" <=> (matched /\ ~known)
                  /\ last'.path = "exact" <=> new = {}
                  /\ \A c \in new :
                        /\ c.email = req'.email /\ c.phoneNumber = req'.phoneNumber
                        /\ c.deletedAt = NULL
                        /\ last'.path = "primary" =>
                              IsPrimary(c) /\ c.linkedId = NullId
                        /\ last'.path = "secondary" =>
                              /\ IsSecondary(c) /\ c.linkedId = last'.canonical
                              /\ \E p \in Range(Committed') :
                                    p.id = last'.canonical /\ IsPrimary(p)
        /\ last'.path = "fault" => NewRows(Committed, Committed') = {}
        /\ \A t \in Clients :
              /\ (txs[t].pc = "exact" /\ txs'[t].pc # "exact") =>
                    /\ txs[t].extras = <<>>
                    /\ txs[t].inserted = {}
                    /\ \A d \in txs[t].demoted : \E r \in txs[t].updated :
                          r.id = d /\ IsSecondary(r) /\ r.linkedId = txs[t].canonical
              /\ (txs[t].pc = "createSecondary" /\ txs'[t].pc = "final") =>
                    /\ txs[t].path = "exact"
                    /\ Cardinality(txs'[t].inserted) = 1
              /\ (txs[t].pc = "final" /\ txs'[t].pc = "commit") =>
                    txs[t].inserted \subseteq
                        Range(txs'[t].response.contact.secondaryContactIds) ]_vars

\* A call that merged two primaries has inserted its secondary and read the
\* final cluster, which lists the demoted primary and the new row.
C26_Witness ==
    \E t \in Clients :
        /\ txs[t].pc = "commit"
        /\ txs[t].path = "secondary"
        /\ txs[t].demoted # {}
        /\ txs[t].inserted # {}
        /\ txs[t].inserted \cup txs[t].demoted
              = Range(txs[t].response.contact.secondaryContactIds)

\* The requests with at least one field, over the values of the model.
Requests ==
    {r \in [email : Range(Emails) \cup {NULL}, phoneNumber : Range(Phones) \cup {NULL}] :
        Present(r.email) \/ Present(r.phoneNumber)}

\* C27: findExactMatch finds a row exactly when some row that is not
\* soft-deleted has, for a two-field input, both the given email and the given
\* phone, and for a one-field input the given value (whatever its other
\* field), and any row it returns is such a row; so a call with direct matches
\* inserts nothing exactly when such a row exists, and an email on one row
\* with the phone on another does not count.
C27_ExactMatchRule ==
    /\ [](\A r \in Requests :
            /\ FindExactMatch(contacts, r.email, r.phoneNumber) # {}
                  <=> \E c \in Range(contacts) : c.deletedAt = NULL /\ ExactRow(c, r)
            /\ \A c \in FindExactMatch(contacts, r.email, r.phoneNumber) :
                  c.deletedAt = NULL /\ ExactRow(c, r))
    /\ [][ last'.path \in {"exact", "secondary"} =>
             (last'.path = "exact"
                <=> \E c \in Range(contacts) : c.deletedAt = NULL /\ ExactRow(c, req')) ]_vars

\* A two-field request has just been inserted as a new row although a
\* soft-deleted row carries the same pair and two live rows carry its email
\* and its phone between them.
C27_Witness ==
    /\ last.path = "secondary"
    /\ Present(req.email) /\ Present(req.phoneNumber)
    /\ \E x \in Range(contacts) :
          x.deletedAt # NULL /\ x.email = req.email /\ x.phoneNumber = req.phoneNumber
    /\ \E c \in Live(contacts), d \in Live(contacts) :
          /\ c.id < Len(contacts) /\ d.id < Len(contacts)
          /\ c.email = req.email /\ c.phoneNumber # req.phoneNumber
          /\ d.phoneNumber = req.phoneNumber /\ d.email # req.email

\* The walk over linkedId, in both directions, from the rows of S until
\* nothing is added.
RECURSIVE LinkWalk(_, _)
LinkWalk(store, S) ==
    LET grown == S \cup {d \in Live(store) :
                           \E x \in S : d.id = x.linkedId \/ d.linkedId = x.id}
    IN  IF grown = S THEN S ELSE LinkWalk(store, grown)

\* C28: in every state of the table (all of them flat), for every request
\* and its direct matches (the seeds), the one query of fetchCluster over the
\* primary ids derived from the seeds returns exactly the rows a transitive
\* walk over linkedId reaches from the seeds, each once: the seeds' complete
\* clusters and no row of another cluster.
C28_ClusterResolution ==
    \A r \in Requests :
        \A seeds \in FindDirectMatches(contacts, r.email, r.phoneNumber) :
            seeds # <<>> =>
                \A cluster \in FetchCluster(contacts, PrimaryIdSet(seeds)) :
                    /\ Range(cluster) = LinkWalk(contacts, Range(seeds))
                    /\ Len(cluster) = Cardinality(Range(cluster))
                    /\ Range(cluster) = Connected(contacts, Range(seeds))
                    /\ NoChain(contacts)

\* Some value is carried by one secondary only, whose cluster has three rows,
\* and the table holds a row of another cluster.
C28_Witness ==
    /\ Len(contacts) = 4
    /\ \E r \in Requests :
          /\ Cardinality(Matching(contacts, r)) = 1
          /\ \A c \in Matching(contacts, r) :
                /\ IsSecondary(c)
                /\ Cardinality(LinkWalk(contacts, {c})) = 3

\* C29: a call deletes no row and changes no id, email, phoneNumber,
\* createdAt or deletedAt of an existing row.  A row it changes is either a
\* primary of a matched cluster, which becomes a secondary linked to a primary
\* of a matched cluster that is not newer and stays as it was, or a live
\* secondary of such a demoted primary, which is linked to the same primary
\* instead.  Rows outside the matched clusters, and the rows of a call that
\* fails, are left as they were.
C29_Frame ==
    [][ last'.path # "none" =>
          /\ Len(contacts') >= Len(contacts)
          /\ \A i \in 1..Len(contacts) :
                LET old == contacts[i]
                    new == contacts'[i]
                IN  /\ new.id = old.id
                    /\ new.email = old.email
                    /\ new.phoneNumber = old.phoneNumber
                    /\ new.createdAt = old.createdAt
                    /\ new.deletedAt = old.deletedAt
                    /\ new # old =>
                          /\ old \in FetchedFor(contacts, req')
                          /\ resp'.status = 200
                          /\ IsSecondary(new)
                          /\ \E p \in FetchedFor(contacts, req') :
                                /\ new.linkedId = p.id
                                /\ IsPrimary(p) /\ contacts'[p.id] = p
                                /\ \/ /\ IsPrimary(old)
                                      /\ p.createdAt <= old.createdAt
                                   \/ /\ IsSecondary(old)
                                      /\ IsPrimary(contacts[old.linkedId])
                                      /\ IsSecondary(contacts'[old.linkedId])
                                      /\ p.createdAt <= contacts[old.linkedId].createdAt ]_vars

\* The call merged two clusters and inserted a row, next to a soft-deleted
\* primary of a third cluster.
C29_Witness ==
    /\ last.demoted # {}
    /\ last.path = "secondary"
    /\ resp.status = 200
    /\ \E c \in Range(contacts) :
          /\ c.deletedAt # NULL /\ IsPrimary(c)
          /\ \A d \in Range(contacts) : d.id # c.id => ~Shares(c, d)

\* C30: soft-deleted rows take no part in a call.  A request whose values
\* only soft-deleted rows carry is treated as a new identity; a call inserts
\* nothing only if a row that is not deleted carries the exact input; no
\* deleted row is changed, in particular none is re-parented; and the response
\* is made of live rows alone: every id in it is the id of a live row, and its
\* emails and phone numbers are exactly those of the live rows that name the
\* primary (no value comes from a deleted row).
C30_DeletedExcluded ==
    [][ last'.path # "none" =>
          /\ (\A c \in Range(contacts) :
                Shares([email |-> req'.email, phoneNumber |-> req'.phoneNumber], c)
                   => c.deletedAt # NULL)
             => last'.path = "primary"
          /\ last'.path = "exact" =>
                \E c \in Range(contacts) : c.deletedAt = NULL /\ ExactRow(c, req')
          /\ \A i \in 1..Len(contacts) :
                contacts[i].deletedAt # NULL => contacts'[i] = contacts[i]
          /\ resp'.status = 200 =>
                LET r == resp'.contact
                    members == {c \in Range(contacts') :
                                  /\ c.deletedAt = NULL
                                  /\ c.id = r.primaryContactId
                                        \/ c.linkedId = r.primaryContactId}
                IN  /\ {r.primaryContactId} \cup Range(r.secondaryContactIds)
                          = {c.id : c \in members}
                    /\ Range(r.emails) = {c.email : c \in members} \ {NULL}
                    /\ Range(r.phoneNumbers) = {c.phoneNumber : c \in members} \ {NULL} ]_vars

\* The call demoted a primary whose soft-deleted secondary stayed linked to
\* it; the response has neither that row's id nor its email.
C30_Witness ==
    /\ resp.status = 200
    /\ last.demoted # {}
    /\ \E c \in Range(contacts) :
          /\ c.deletedAt # NULL
          /\ c.linkedId \in last.demoted
          /\ c.id \notin Range(resp.contact.secondaryContactIds)
          /\ Present(c.email) /\ c.email \notin Range(resp.contact.emails)

\* Two outcomes of one call on one table are the same result: the same
\* election, the same answer and the same rows, the clock reading of a newly
\* inserted row aside.
SameResult(before, a, b) ==
    /\ a.last = b.last
    /\ a.resp = b.resp
    /\ Len(a.contacts) = Len(b.contacts)
    /\ \A i \in 1..Len(a.contacts) :
          IF i <= Len(before) THEN a.contacts[i] = b.contacts[i]
          ELSE [a.contacts[i] EXCEPT !.createdAt = 0]
                 = [b.contacts[i] EXCEPT !.createdAt = 0]

\* C31: the result of a call is a function of the table and the input: every
\* outcome the transaction can commit for the request just served, whatever
\* order the queries return rows of equal createdAt in, elects the same
\* canonical primary, leaves the same table and returns the same response as
\* the outcome that was committed.
C31_ResultDeterminism ==
    [][ \A o \in IdentifyTx(contacts, req'.email, req'.phoneNumber) :
          SameResult(contacts, o,
                     [contacts |-> contacts', resp |-> resp', last |-> last']) ]_vars

\* Contact a was created after contact b: a later clock reading, or the same
\* reading and a later insert.
Newer(a, b) ==
    \/ a.createdAt > b.createdAt
    \/ a.createdAt = b.createdAt /\ a.id > b.id

\* C32: demotion is one-way.  In every step a secondary stays a secondary; a
\* row whose primary changes gets a primary with an earlier createdAt than
\* the one it had; and the primaryContactId answered for a request is not
\* newer than the primary any row with the request's email or phone number
\* had before the call.
C32_DemotionOneWay ==
    [][ /\ \A i \in 1..Len(contacts) :
              IsSecondary(contacts[i]) => IsSecondary(contacts'[i])
        /\ \A i \in 1..Len(contacts) :
              PrimaryOf(contacts'[i]) # PrimaryOf(contacts[i])
                 => contacts'[PrimaryOf(contacts'[i])].createdAt
                       < contacts[PrimaryOf(contacts[i])].createdAt
        /\ resp'.status = 200 =>
              \A c \in Matching(contacts, req') :
                 ~Newer(contacts'[resp'.contact.primaryContactId],
                        contacts[PrimaryOf(c)]) ]_vars

\* The request carries exactly one of the two fields.
SingleField(r) == Present(r.email) # Present(r.phoneNumber)

\* C33: a call that supplies only one of the two fields never inserts a
\* secondary.  If no live row has the value it inserts one primary with
\* linkedId null carrying the value; otherwise it inserts nothing.  In both
\* cases it changes no existing row.
C33_SingleFieldNoSecondary ==
    [][ (last'.path # "none" /\ SingleField(req')) =>
          /\ last'.path # "secondary"
          /\ \A i \in 1..Len(contacts) : contacts'[i] = contacts[i]
          /\ IF Matching(contacts, req') = {}
             THEN /\ Len(contacts') = Len(contacts) + 1
                  /\ LET c == contacts'[Len(contacts')]
                     IN  /\ IsPrimary(c) /\ c.linkedId = NullId
                         /\ c.email = req'.email
                         /\ c.phoneNumber = req'.phoneNumber
             ELSE /\ Len(contacts') = Len(contacts)
                  /\ \A c \in Matching(contacts, req') : ExactRow(c, req') ]_vars

\* A one-field call has just been answered from a cluster of three rows in
\* which two carry its value, one of them a secondary, and it added nothing.
C33_Witness ==
    /\ SingleField(req)
    /\ last.path = "exact"
    /\ resp.status = 200
    /\ Len(resp.contact.secondaryContactIds) >= 2
    /\ Cardinality(Matching(contacts, req)) >= 2
    /\ \E c \in Matching(contacts, req) : IsSecondary(c)

\* C34: between calls served one at a time from an empty table, the direct
\* matches of every request name at most two primaries, the cluster fetched
\* for it holds at most two primaries, and the call just served demoted at
\* most one.
C34_AtMostTwoClusters ==
    /\ Cardinality(last.demoted) <= 1
    /\ \A r \in Requests :
          /\ \A directMatches \in FindDirectMatches(contacts, r.email, r.phoneNumber) :
                Cardinality(PrimaryIdSet(directMatches)) <= 2
          /\ Cardinality({c \in FetchedFor(contacts, r) : IsPrimary(c)}) <= 2

\* The call just served matched rows of two clusters, one of them with a
\* secondary already, and demoted the primary of the other.
C34_Witness ==
    /\ Cardinality(last.demoted) = 1
    /\ Cardinality({PrimaryOf(c) : c \in Matching(contacts, req)}) = 1
    /\ Len(resp.contact.secondaryContactIds) >= 3

\* C35: when requests are served one at a time from an empty table, no two
\* rows that are not soft-deleted have the same pair of email and phoneNumber
\* (null being a value like any other), and no row has both fields null.
C35_FingerprintUnique ==
    /\ \A c \in Live(contacts), d \in Live(contacts) :
          (c.email = d.email /\ c.phoneNumber = d.phoneNumber) => c.id = d.id
    /\ \A c \in Range(contacts) : Present(c.email) \/ Present(c.phoneNumber)

\* Three rows are in the table, two of them with the same email and one with
\* no phone number; the request just answered repeated a pair a row already
\* had and added nothing (four transactions were opened for three rows).
C35_Witness ==
    /\ Len(contacts) = 3
    /\ \E c \in Range(contacts), d \in Range(contacts) :
          c.id # d.id /\ Present(c.email) /\ c.email = d.email
    /\ last.path = "exact"
    /\ Present(req.email) /\ Present(req.phoneNumber)
    /\ calls = MaxCalls

\* A disconnect is started only when the server has closed; the exit code is
\* 0 exactly after a disconnect that succeeded, and 1 after one that failed
\* or after the timer; no exit without a signal.
ExitCodes ==
    /\ (process.disconnecting # {} \/ process.prisma = "disconnected")
          => (/\ process.server = "closed"
              /\ process.connections = 0
              /\ txs[1].pc = "idle")
    /\ (~Running) => (process.signals > 0)
    /\ (process.exitCode = 0)
          <=> (/\ process.exitedBy = "disconnected"
               /\ process.prisma = "disconnected")
    /\ (process.exitedBy = "error during shutdown")
          => (/\ process.exitCode = 1
              /\ process.server = "closed"
              /\ process.prisma = "connected")
    /\ (process.exitedBy = "shutdown timeout") => (process.exitCode = 1)
    /\ process.exitCode \in {NoExit, 0, 1}

\* Nothing happens after the exit; the timer ends only a process that armed
\* it, every other exit follows a disconnect that was started.
ExitOnce ==
    /\ (~Running) => UNCHANGED vars
    /\ (Running /\ ~Running')
          => (\/ /\ process'.exitedBy = "shutdown timeout"
                 /\ process.timers # {}
              \/ /\ process'.exitedBy # "shutdown timeout"
                 /\ process.disconnecting # {})

\* C36: after a signal the process eventually exits.  It exits with code 0
\* only once the server has closed and the database client has disconnected;
\* with code 1 when the disconnect failed, the server being closed; with
\* code 1 when the force-exit timer fired first.  It never exits without a
\* signal, nothing happens after the exit, and a disconnect is started only
\* when the server has closed: it accepts nothing, no connection is open and
\* no request is being served.
C36_GracefulShutdown ==
    /\ []ExitCodes
    /\ [][ExitOnce]_vars
    /\ (process.signals > 0) ~> ~Running

\* The process has exited with code 0 after two signals, both of which came
\* before the server had closed, and every request it received was committed
\* with a new row.
C36_Witness ==
    /\ process.exitCode = 0
    /\ process.signals = 2
    /\ process.disconnecting = {1, 2}
    /\ calls > 0
    /\ Len(Committed) = calls

====
